---- MODULE Spec2Model ----
(***************************************************************************)
(* The cart and product handlers of the Honda store API (Cloud Functions   *)
(* over Firestore).  Every handler is an async function: between two       *)
(* awaited Firestore calls any other request may run, so each awaited      *)
(* Firestore call is one atomic step of the request that makes it.         *)
(***************************************************************************)
EXTENDS Integers, Sequences, FiniteSets, TLC

\* ------------------------------------------------------------------ bounds

\* Requests issued in one behaviour.
MaxCalls == 3
\* Largest quantity a request asks for.
MaxQty == 2
\* Largest price and stock an update_product request sets.
MaxPrice == 2
MaxStock == 2
\* Cart documents the carts collection can hold.
MaxCarts == 3
\* Largest magnitude of an argument of checkProductStock applied alone.
MaxArg == 4

Users == {"u1", "u2"}
ProductIds == {"p1", "p2"}
CartIds == 1..MaxCarts
\* Request slots: the handlers that may be in flight at the same time.
Procs == {"r1", "r2"}

CartOps == {"add_product_to_cart", "remove_product_from_cart",
            "update_product_quantity_in_cart", "get_cart", "clear_cart",
            "checkout_cart"}
ProductOps == {"update_product", "remove_product"}
\* The ids that firestore.collection('products').add gives to new products:
\* more of them than requests in a behaviour.
NewProductIds == {"n1", "n2", "n3", "n4"}

VARIABLES
    carts,          \* the carts collection: document id -> CartData
    products,       \* the products collection: document id -> ProductData
    pc,             \* per request slot: the await the handler is at
    req,            \* per request slot: the request (op, uid, body)
    cartSnapshot,   \* per request slot: the QuerySnapshot of the pending carts
    productData,    \* per request slot: the product document read (<<>> if none)
    result,         \* per request slot: the response
    wrote,          \* per request slot: the handler has written to the store
    attempts,       \* per request slot: times the handler ran its read step
    calls,          \* requests issued so far
    warning,        \* per request slot: the last warning the handler logged
    history,        \* the requests issued so far, when they follow the scenario
    checkedOut,     \* per request slot: the owner whose checkout_cart the slot
                    \* completed with success just before its current request
    stockArg,       \* checkProductStock applied alone: productData.stock
    qtyArg,         \* checkProductStock applied alone: quantity
    stockResult     \* checkProductStock applied alone: the outcome

storeVars == <<carts, products>>
\* What only the arrival of a request changes.
callVars == <<calls, checkedOut, history>>
procVars == <<pc, req, cartSnapshot, productData, result, wrote, attempts, warning,
              calls, checkedOut, history>>
fnVars == <<stockArg, qtyArg, stockResult>>
vars == <<carts, products, pc, req, cartSnapshot, productData, result, wrote,
          attempts, warning, calls, checkedOut, history, stockArg, qtyArg,
          stockResult>>

\* ------------------------------------------------------------- pure helpers

\* checkProductActive: throws when the product is not active.
checkProductActive(pd) ==
    IF ~pd.active THEN "Unavailable" ELSE "ok"

\* checkProductStock with `stock <= quantity` for `stock < quantity`.
checkProductStock_OffByOne(stock, quantity) ==
    IF stock <= 0 THEN "Unavailable"
    ELSE IF quantity # 0 /\ stock <= quantity THEN "Unavailable"
    ELSE "ok"

\* checkProductStock: `stock <= 0` throws; `quantity && stock < quantity` throws.
checkProductStock(stock, quantity) ==
    IF stock <= 0 THEN "Unavailable"
    ELSE IF quantity # 0 /\ stock < quantity THEN "Unavailable"
    ELSE "ok"

\* A quantity or a stock is a JSON number, and a JSON number need not be an
\* integer: quantities and stocks are counted in halves.  Whole(n) is the
\* integer n, and a number is an integer when it is a Whole.
Whole(n) == 2 * n
IsInteger(n) == n % 2 = 0

\* validateNonEmptyStringField on a product id ("" is the empty string).
validateNonEmptyStringField(s) ==
    IF s = "" THEN "InvalidArgument" ELSE "ok"

\* validatePositiveNonZeroNumberField with the test of
\* validatePositiveNumberField: `fieldValue < 0`.
validatePositiveNonZeroNumberField_Positive(n) ==
    IF n < 0 THEN "InvalidArgument" ELSE "ok"

\* validatePositiveNonZeroNumberField on a number.
validatePositiveNonZeroNumberField(n) ==
    IF n <= 0 THEN "InvalidArgument" ELSE "ok"

\* The documents of S in ascending order of document id, as a query returns them.
RECURSIVE DocsOf(_, _)
DocsOf(coll, S) ==
    IF S = {} THEN <<>>
    ELSE LET m == CHOOSE x \in S : \A y \in S : x <= y
         IN <<[id |-> m, data |-> coll[m]]>> \o DocsOf(coll, S \ {m})

\* getCurrentPendingCartRef: carts where owner == uid and status == 'pending'.
PendingIds(cs, uid) ==
    {c \in DOMAIN cs : cs[c].owner = uid /\ cs[c].status = "pending"}

\* getCurrentPendingCartRef without the filter on the owner.
getCurrentPendingCartRef_AnyOwner(uid) ==
    DocsOf(carts, {c \in DOMAIN carts : carts[c].status = "pending"})

\* getCurrentPendingCartRef without the filter on the status.
getCurrentPendingCartRef_AnyStatus(uid) ==
    DocsOf(carts, {c \in DOMAIN carts : carts[c].owner = uid})

\* The QuerySnapshot of the pending carts of uid.
getCurrentPendingCartRef(uid) ==
    DocsOf(carts, PendingIds(carts, uid))

\* {...m, [k]: v}
Put(m, k, v) == [x \in (DOMAIN m) \cup {k} |-> IF x = k THEN v ELSE m[x]]

\* delete m[k]
Delete(m, k) == [x \in (DOMAIN m) \ {k} |-> m[x]]

NoLines == [x \in {} |-> 0]

\* ------------------------------------------------------------------ requests

\* Request bodies.  A product id of "" and a quantity of 0 are the malformed
\* inputs; `fields` of an update_product body are the fields that are not null.
AddRequests ==
    [op : {"add_product_to_cart"}, uid : Users,
     product_id : ProductIds, quantity : {Whole(q) : q \in 1..MaxQty}]
RemoveLineRequests ==
    [op : {"remove_product_from_cart"}, uid : Users, product_id : ProductIds]
UpdateQuantityRequests ==
    [op : {"update_product_quantity_in_cart"}, uid : Users,
     product_id : ProductIds, quantity : {Whole(q) : q \in 1..MaxQty}]
OwnerRequests ==
    [op : {"get_cart", "clear_cart", "checkout_cart"}, uid : Users]
\* Malformed bodies: an empty product id, a quantity of zero.
MalformedRequests ==
    [op : {"add_product_to_cart", "update_product_quantity_in_cart"},
     uid : {"u1"}, product_id : {""}, quantity : {Whole(1)}]
    \cup [op : {"add_product_to_cart", "update_product_quantity_in_cart"},
          uid : {"u1"}, product_id : {"p1"}, quantity : {0}]
    \cup [op : {"remove_product_from_cart", "remove_product"},
          uid : {"u1"}, product_id : {""}]
    \cup [op : {"update_product"}, uid : {"u1"}, product_id : {"p1"},
          fields : {{"price"}}, price : {0}, stock : {Whole(1)}, active : {TRUE}]
    \cup [op : {"update_product"}, uid : {"u1"}, product_id : {"p1"},
          fields : {{"stock"}}, price : {1}, stock : {0}, active : {TRUE}]
UpdateProductRequests ==
    [op : {"update_product"}, uid : Users, product_id : {"p1"},
     fields : {{"price"}}, price : 1..MaxPrice, stock : {Whole(1)}, active : {TRUE}]
    \cup [op : {"update_product"}, uid : {"u1"}, product_id : {"p1"},
          fields : {{"stock"}}, price : {1},
          stock : {Whole(k) : k \in 1..MaxStock}, active : {TRUE}]
    \cup [op : {"update_product"}, uid : {"u1"}, product_id : {"p1"},
          fields : {{"active"}}, price : {1}, stock : {Whole(1)}, active : BOOLEAN]
RemoveProductRequests ==
    [op : {"remove_product"}, uid : Users, product_id : {"p2"}]
\* Bodies whose quantity is a number above zero that is not an integer: one
\* and a half.
FractionalRequests ==
    [op : {"add_product_to_cart", "update_product_quantity_in_cart"},
     uid : {"u1"}, product_id : {"p1"}, quantity : {Whole(1) + 1}]

\* Bodies of create_product: `fields` are the numeric fields that are not
\* null; the string fields, the tags and active are well formed.
CreateProductRequests ==
    [op : {"create_product"}, uid : Users, fields : {{"price", "stock"}},
     price : {-1, 0, 1}, stock : {Whole(-1), 0, Whole(1)}, active : BOOLEAN]
    \cup [op : {"create_product"}, uid : {"u1"}, fields : {{"price"}, {"stock"}},
          price : {1}, stock : {Whole(1)}, active : {TRUE}]
\* Bodies of get_product_by_id: a product of the catalogue, a new product,
\* and an empty id.
GetProductRequests ==
    [op : {"get_product_by_id"}, uid : Users,
     product_id : ProductIds \cup {"n1"}]
    \cup [op : {"get_product_by_id"}, uid : {"u1"}, product_id : {""}]

\* The requests of the cart handlers.
CartRequests ==
    AddRequests \cup RemoveLineRequests \cup UpdateQuantityRequests
    \cup OwnerRequests
\* The cart requests that run concurrently: those of u1, and of u2 an add, a
\* clear and a checkout.
ConcurrentRequests ==
    {r \in CartRequests :
        \/ /\ r.uid = "u1"
           /\ r.op \in {"remove_product_from_cart", "update_product_quantity_in_cart"}
                  => r.product_id = "p1"
        \/ /\ r.uid = "u2"
           /\ r.op \in {"add_product_to_cart", "clear_cart", "checkout_cart"}
           /\ r.op = "add_product_to_cart"
                  => r.product_id = "p1" /\ r.quantity = Whole(1)}
\* The requests of all the handlers modelled.
Requests ==
    CartRequests \cup UpdateProductRequests \cup RemoveProductRequests
    \cup MalformedRequests \cup FractionalRequests
\* The requests of the product handlers.
CatalogRequests ==
    CreateProductRequests \cup GetProductRequests \cup UpdateProductRequests
    \cup RemoveProductRequests
    \cup {r \in MalformedRequests : r.op \in ProductOps}

NoRequest == [op |-> "none"]

\* The catalogue the store starts with: create_product has been called twice.
InitialProducts ==
    [p \in ProductIds |->
        IF p = "p1"
        THEN [owner |-> "u1", price |-> 1, stock |-> Whole(MaxStock), active |-> TRUE]
        ELSE [owner |-> "u2", price |-> MaxPrice, stock |-> Whole(1), active |-> TRUE]]

\* No request has arrived yet: no cart, all slots free.
InitStore ==
    /\ carts = [c \in {} |-> 0]
    /\ products = InitialProducts
    /\ pc = [p \in Procs |-> "idle"]
    /\ req = [p \in Procs |-> NoRequest]
    /\ cartSnapshot = [p \in Procs |-> <<>>]
    /\ productData = [p \in Procs |-> <<>>]
    /\ result = [p \in Procs |-> "none"]
    /\ wrote = [p \in Procs |-> FALSE]
    /\ attempts = [p \in Procs |-> 0]
    /\ calls = 0
    /\ warning = [p \in Procs |-> "none"]
    /\ history = <<>>
    /\ checkedOut = [p \in Procs |-> "none"]

Init ==
    /\ InitStore
    /\ stockArg = 0
    /\ qtyArg = 0
    /\ stockResult = "none"

\* ------------------------------------------------------- handler plumbing

\* The handler of slot p moves to its next await.
Goto(p, label) ==
    /\ pc' = [pc EXCEPT ![p] = label]
    /\ UNCHANGED <<result, warning>>

\* The handler of slot p responds: 200 with "ok", or the thrown HTTPError
\* turned into a response by handleRequestError.
Respond(p, res) ==
    /\ pc' = [pc EXCEPT ![p] = "done"]
    /\ result' = [result EXCEPT ![p] = res]
    /\ warning' = [warning EXCEPT ![p] = IF res = "ok" THEN @ ELSE res]

\* Validation of the request body, before the first Firestore call.
Validate(r) ==
    IF r.op \in {"add_product_to_cart", "update_product_quantity_in_cart"}
    THEN IF validateNonEmptyStringField(r.product_id) # "ok"
         THEN "InvalidArgument"
         ELSE validatePositiveNonZeroNumberField(r.quantity)
    ELSE IF r.op \in {"remove_product_from_cart", "remove_product",
                       "get_product_by_id"}
    THEN validateNonEmptyStringField(r.product_id)
    ELSE IF r.op = "create_product"
    THEN IF "price" \notin r.fields THEN "InvalidArgument"
         ELSE IF validatePositiveNonZeroNumberField(r.price) # "ok"
         THEN "InvalidArgument"
         ELSE IF "stock" \notin r.fields THEN "InvalidArgument"
         ELSE validatePositiveNonZeroNumberField(r.stock)
    ELSE IF r.op = "update_product"
    THEN IF validateNonEmptyStringField(r.product_id) # "ok"
         THEN "InvalidArgument"
         ELSE IF "price" \in r.fields
                 /\ validatePositiveNonZeroNumberField(r.price) # "ok"
         THEN "InvalidArgument"
         ELSE IF "stock" \in r.fields
                 /\ validatePositiveNonZeroNumberField(r.stock) # "ok"
         THEN "InvalidArgument"
         ELSE "ok"
    ELSE "ok"

\* The first await after validation: the pending cart query, or the product read.
FirstStep(r) ==
    IF r.op \in CartOps THEN "query"
    ELSE IF r.op = "create_product" THEN "write"
    ELSE "product"

\* A request arrives in a free slot; its body is validated.
Arrive(p, r) ==
    /\ pc[p] \in {"idle", "done"}
    /\ calls' = calls + 1
    /\ req' = [req EXCEPT ![p] = r]
    /\ cartSnapshot' = [cartSnapshot EXCEPT ![p] = <<>>]
    /\ productData' = [productData EXCEPT ![p] = <<>>]
    /\ wrote' = [wrote EXCEPT ![p] = FALSE]
    /\ attempts' = [attempts EXCEPT ![p] = 0]
    /\ checkedOut' = [checkedOut EXCEPT ![p] =
           IF pc[p] = "done" /\ req[p].op = "checkout_cart" /\ result[p] = "ok"
           THEN req[p].uid ELSE "none"]
    /\ IF Validate(r) = "ok"
       THEN /\ pc' = [pc EXCEPT ![p] = FirstStep(r)]
            /\ result' = [result EXCEPT ![p] = "none"]
            /\ warning' = [warning EXCEPT ![p] = "none"]
       ELSE Respond(p, Validate(r))
    /\ UNCHANGED <<storeVars, fnVars>>

\* Any request arrives, as long as fewer than MaxCalls have.
Call(p, r) ==
    /\ calls < MaxCalls
    /\ Arrive(p, r)
    /\ UNCHANGED history

\* `await getCurrentPendingCartRef(...)` of slot p.
ReadCarts(p) ==
    /\ cartSnapshot' = [cartSnapshot EXCEPT ![p] = getCurrentPendingCartRef(req[p].uid)]
    /\ attempts' = [attempts EXCEPT ![p] = @ + 1]

\* getProductDataById: the product document, <<>> when it does not exist.
getProductDataById(product_id) ==
    IF product_id \in DOMAIN products THEN <<products[product_id]>> ELSE <<>>

\* cartData.products[product_id] is truthy.
HasLine(cartData, product_id) == product_id \in DOMAIN cartData.products

\* UpdateCartProducts that writes back the whole document the handler read,
\* with the new lines.
UpdateCartProducts_WholeDocument(p, id, lines) ==
    /\ carts' = [carts EXCEPT ![id] =
                    [cartSnapshot[p][1].data EXCEPT !.products = lines]]
    /\ wrote' = [wrote EXCEPT ![p] = TRUE]
    /\ UNCHANGED products

\* cartDocument.ref.update({products: lines}): an unconditional write of the
\* products field of the document the snapshot names; its other fields stay.
UpdateCartProducts(p, id, lines) ==
    /\ carts' = [carts EXCEPT ![id].products = lines]
    /\ wrote' = [wrote EXCEPT ![p] = TRUE]
    /\ UNCHANGED products

\* cartDocument.ref.update({status: status}).
UpdateCartStatus(p, id, status) ==
    /\ carts' = [carts EXCEPT ![id].status = status]
    /\ wrote' = [wrote EXCEPT ![p] = TRUE]
    /\ UNCHANGED products

\* AddCart that may write the new cart under the id of an existing cart.
AddCart_Overwrite(p, newCart) ==
    /\ \E id \in CartIds : carts' = Put(carts, id, newCart)
    /\ wrote' = [wrote EXCEPT ![p] = TRUE]
    /\ UNCHANGED products

\* firestore.collection('carts').add(newCart): a document under a fresh
\* auto-generated id, which may sort anywhere among the existing ids.
AddCart(p, newCart) ==
    /\ \E id \in CartIds \ DOMAIN carts :
           carts' = [c \in (DOMAIN carts) \cup {id} |->
                        IF c = id THEN newCart ELSE carts[c]]
    /\ wrote' = [wrote EXCEPT ![p] = TRUE]
    /\ UNCHANGED products

\* The first document of the snapshot of slot p: cartSnapshot.docs[0].
CartDocument(p) == cartSnapshot[p][1]

\* ---------------------------------------------------- add_product_to_cart

\* const cartSnapshot = await getCurrentPendingCartRef(firestore, decodedIdToken)
add_product_to_cart_query(p) ==
    /\ pc[p] = "query" /\ req[p].op = "add_product_to_cart"
    /\ ReadCarts(p)
    /\ Goto(p, "product")
    /\ UNCHANGED <<storeVars, fnVars, req, productData, wrote, callVars>>

\* add_product_to_cart_product that checks the stock against the quantity
\* asked plus the quantity the cart already holds.
add_product_to_cart_product_Reserved(p) ==
    /\ pc[p] = "product" /\ req[p].op = "add_product_to_cart"
    /\ LET pd == getProductDataById(req[p].product_id)
           held == IF cartSnapshot[p] # <<>>
                      /\ HasLine(CartDocument(p).data, req[p].product_id)
                   THEN CartDocument(p).data.products[req[p].product_id].quantity
                   ELSE 0
       IN
         /\ productData' = [productData EXCEPT ![p] = pd]
         /\ IF pd = <<>> THEN Respond(p, "NotFound")
            ELSE IF checkProductActive(pd[1]) # "ok" THEN Respond(p, "Unavailable")
            ELSE IF checkProductStock(pd[1].stock, held + req[p].quantity) # "ok"
            THEN Respond(p, "Unavailable")
            ELSE Goto(p, "write")
    /\ UNCHANGED <<storeVars, fnVars, req, cartSnapshot, wrote, attempts, callVars>>

\* getProductDataById, checkProductActive, checkProductStock
add_product_to_cart_product(p) ==
    /\ pc[p] = "product" /\ req[p].op = "add_product_to_cart"
    /\ LET pd == getProductDataById(req[p].product_id) IN
         /\ productData' = [productData EXCEPT ![p] = pd]
         /\ IF pd = <<>> THEN Respond(p, "NotFound")
            ELSE IF checkProductActive(pd[1]) # "ok" THEN Respond(p, "Unavailable")
            ELSE IF checkProductStock(pd[1].stock, req[p].quantity) # "ok"
            THEN Respond(p, "Unavailable")
            ELSE Goto(p, "write")
    /\ UNCHANGED <<storeVars, fnVars, req, cartSnapshot, wrote, attempts, callVars>>

\* AddedProducts that refreshes the price of a line it increments.
AddedProducts_RefreshPrice(cartData, product_id, quantity, price) ==
    IF HasLine(cartData, product_id)
    THEN [cartData.products EXCEPT
             ![product_id] = [price |-> price, quantity |-> @.quantity + quantity]]
    ELSE Put(cartData.products, product_id, [price |-> price, quantity |-> quantity])

\* AddedProducts that writes the new line without spreading the old lines.
AddedProducts_NoSpread(cartData, product_id, quantity, price) ==
    IF HasLine(cartData, product_id)
    THEN [cartData.products EXCEPT ![product_id].quantity = @ + quantity]
    ELSE Put(NoLines, product_id, [price |-> price, quantity |-> quantity])

\* The products field that add_product_to_cart writes to an existing cart.
AddedProducts(cartData, product_id, quantity, price) ==
    IF HasLine(cartData, product_id)
    THEN [cartData.products EXCEPT ![product_id].quantity = @ + quantity]
    ELSE Put(cartData.products, product_id, [price |-> price, quantity |-> quantity])

\* NewCart with the price and the quantity of the line swapped.
NewCart_Swapped(uid, product_id, quantity, price) ==
    [owner |-> uid, status |-> "pending",
     products |-> Put(NoLines, product_id, [price |-> quantity, quantity |-> price])]

\* The cart that add_product_to_cart creates.
NewCart(uid, product_id, quantity, price) ==
    [owner |-> uid, status |-> "pending",
     products |-> Put(NoLines, product_id, [price |-> price, quantity |-> quantity])]

\* add_product_to_cart_write without the test for an existing pending cart.
add_product_to_cart_write_AlwaysNew(p) ==
    /\ pc[p] = "write" /\ req[p].op = "add_product_to_cart"
    /\ AddCart(p, NewCart(req[p].uid, req[p].product_id, req[p].quantity,
                          productData[p][1].price))
    /\ Respond(p, "ok")
    /\ UNCHANGED <<fnVars, req, cartSnapshot, productData, attempts, callVars>>

\* carts.add(newCart) when the snapshot is empty, else cartDocument.ref.update
add_product_to_cart_write(p) ==
    /\ pc[p] = "write" /\ req[p].op = "add_product_to_cart"
    /\ IF cartSnapshot[p] = <<>>
       THEN AddCart(p, NewCart(req[p].uid, req[p].product_id, req[p].quantity,
                               productData[p][1].price))
       ELSE UpdateCartProducts(p, CartDocument(p).id,
                AddedProducts(CartDocument(p).data, req[p].product_id,
                              req[p].quantity, productData[p][1].price))
    /\ Respond(p, "ok")
    /\ UNCHANGED <<fnVars, req, cartSnapshot, productData, attempts, callVars>>

\* ------------------------------------------------ remove_product_from_cart

remove_product_from_cart_query(p) ==
    /\ pc[p] = "query" /\ req[p].op = "remove_product_from_cart"
    /\ ReadCarts(p)
    /\ LET snap == getCurrentPendingCartRef(req[p].uid) IN
         IF snap = <<>> THEN Respond(p, "NotFound")
         ELSE IF ~HasLine(snap[1].data, req[p].product_id) THEN Respond(p, "NotFound")
         ELSE Goto(p, "write")
    /\ UNCHANGED <<storeVars, fnVars, req, productData, wrote, callVars>>

\* remove_product_from_cart_write that keeps the line with a quantity of zero.
remove_product_from_cart_write_ZeroQuantity(p) ==
    /\ pc[p] = "write" /\ req[p].op = "remove_product_from_cart"
    /\ UpdateCartProducts(p, CartDocument(p).id,
           [CartDocument(p).data.products EXCEPT
               ![req[p].product_id].quantity = 0])
    /\ Respond(p, "ok")
    /\ UNCHANGED <<fnVars, req, cartSnapshot, productData, attempts, callVars>>

\* delete updatedProducts[product_id]; cartDocument.ref.update
remove_product_from_cart_write(p) ==
    /\ pc[p] = "write" /\ req[p].op = "remove_product_from_cart"
    /\ UpdateCartProducts(p, CartDocument(p).id,
                          Delete(CartDocument(p).data.products, req[p].product_id))
    /\ Respond(p, "ok")
    /\ UNCHANGED <<fnVars, req, cartSnapshot, productData, attempts, callVars>>

\* ----------------------------------------- update_product_quantity_in_cart

\* update_product_quantity_in_cart_query without the test for the line.
update_product_quantity_in_cart_query_NoLineCheck(p) ==
    /\ pc[p] = "query" /\ req[p].op = "update_product_quantity_in_cart"
    /\ ReadCarts(p)
    /\ LET snap == getCurrentPendingCartRef(req[p].uid) IN
         IF snap = <<>> THEN Respond(p, "NotFound")
         ELSE Goto(p, "product")
    /\ UNCHANGED <<storeVars, fnVars, req, productData, wrote, callVars>>

\* getCurrentPendingCartRef, the test for a pending cart and for the line
update_product_quantity_in_cart_query(p) ==
    /\ pc[p] = "query" /\ req[p].op = "update_product_quantity_in_cart"
    /\ ReadCarts(p)
    /\ LET snap == getCurrentPendingCartRef(req[p].uid) IN
         IF snap = <<>> THEN Respond(p, "NotFound")
         ELSE IF ~HasLine(snap[1].data, req[p].product_id) THEN Respond(p, "NotFound")
         ELSE Goto(p, "product")
    /\ UNCHANGED <<storeVars, fnVars, req, productData, wrote, callVars>>

\* update_product_quantity_in_cart_product that checks the stock against the
\* quantity asked minus the quantity of the line.
update_product_quantity_in_cart_product_Delta(p) ==
    /\ pc[p] = "product" /\ req[p].op = "update_product_quantity_in_cart"
    /\ LET pd == getProductDataById(req[p].product_id) IN
         /\ productData' = [productData EXCEPT ![p] = pd]
         /\ IF pd = <<>> THEN Respond(p, "NotFound")
            ELSE IF checkProductActive(pd[1]) # "ok" THEN Respond(p, "Unavailable")
            ELSE IF checkProductStock(pd[1].stock,
                        req[p].quantity
                        - CartDocument(p).data.products[req[p].product_id].quantity)
                    # "ok"
            THEN Respond(p, "Unavailable")
            ELSE Goto(p, "write")
    /\ UNCHANGED <<storeVars, fnVars, req, cartSnapshot, wrote, attempts, callVars>>

\* getProductDataById, checkProductActive, checkProductStock
update_product_quantity_in_cart_product(p) ==
    /\ pc[p] = "product" /\ req[p].op = "update_product_quantity_in_cart"
    /\ LET pd == getProductDataById(req[p].product_id) IN
         /\ productData' = [productData EXCEPT ![p] = pd]
         /\ IF pd = <<>> THEN Respond(p, "NotFound")
            ELSE IF checkProductActive(pd[1]) # "ok" THEN Respond(p, "Unavailable")
            ELSE IF checkProductStock(pd[1].stock, req[p].quantity) # "ok"
            THEN Respond(p, "Unavailable")
            ELSE Goto(p, "write")
    /\ UNCHANGED <<storeVars, fnVars, req, cartSnapshot, wrote, attempts, callVars>>

\* update_product_quantity_in_cart_write that adds the quantity asked to the
\* quantity of the line.
update_product_quantity_in_cart_write_Increment(p) ==
    /\ pc[p] = "write" /\ req[p].op = "update_product_quantity_in_cart"
    /\ UpdateCartProducts(p, CartDocument(p).id,
           [CartDocument(p).data.products EXCEPT
               ![req[p].product_id].quantity = @ + req[p].quantity])
    /\ Respond(p, "ok")
    /\ UNCHANGED <<fnVars, req, cartSnapshot, productData, attempts, callVars>>

\* updatedProducts[product_id].quantity = quantity; cartDocument.ref.update
update_product_quantity_in_cart_write(p) ==
    /\ pc[p] = "write" /\ req[p].op = "update_product_quantity_in_cart"
    /\ UpdateCartProducts(p, CartDocument(p).id,
           [CartDocument(p).data.products EXCEPT
               ![req[p].product_id].quantity = req[p].quantity])
    /\ Respond(p, "ok")
    /\ UNCHANGED <<fnVars, req, cartSnapshot, productData, attempts, callVars>>

\* ---------------------------------------------------------------- get_cart

get_cart(p) ==
    /\ pc[p] = "query" /\ req[p].op = "get_cart"
    /\ ReadCarts(p)
    /\ IF getCurrentPendingCartRef(req[p].uid) = <<>>
       THEN Respond(p, "NotFound")
       ELSE Respond(p, "ok")
    /\ UNCHANGED <<storeVars, fnVars, req, productData, wrote, callVars>>

\* -------------------------------------------------------------- clear_cart

clear_cart_query(p) ==
    /\ pc[p] = "query" /\ req[p].op = "clear_cart"
    /\ ReadCarts(p)
    /\ IF getCurrentPendingCartRef(req[p].uid) = <<>>
       THEN Respond(p, "NotFound")
       ELSE Goto(p, "write")
    /\ UNCHANGED <<storeVars, fnVars, req, productData, wrote, callVars>>

\* clear_cart_write that also closes the cart.
clear_cart_write_Completed(p) ==
    /\ pc[p] = "write" /\ req[p].op = "clear_cart"
    /\ carts' = [carts EXCEPT ![CartDocument(p).id] =
                    [owner |-> @.owner, status |-> "completed",
                     products |-> NoLines]]
    /\ wrote' = [wrote EXCEPT ![p] = TRUE]
    /\ UNCHANGED products
    /\ Respond(p, "ok")
    /\ UNCHANGED <<fnVars, req, cartSnapshot, productData, attempts, callVars>>

\* cartDocument.ref.update({products: {}})
clear_cart_write(p) ==
    /\ pc[p] = "write" /\ req[p].op = "clear_cart"
    /\ UpdateCartProducts(p, CartDocument(p).id, NoLines)
    /\ Respond(p, "ok")
    /\ UNCHANGED <<fnVars, req, cartSnapshot, productData, attempts, callVars>>

\* ----------------------------------------------------------- checkout_cart

checkout_cart_query(p) ==
    /\ pc[p] = "query" /\ req[p].op = "checkout_cart"
    /\ ReadCarts(p)
    /\ IF getCurrentPendingCartRef(req[p].uid) = <<>>
       THEN Respond(p, "NotFound")
       ELSE Goto(p, "write")
    /\ UNCHANGED <<storeVars, fnVars, req, productData, wrote, callVars>>

checkout_cart_write(p) ==
    /\ pc[p] = "write" /\ req[p].op = "checkout_cart"
    /\ UpdateCartStatus(p, CartDocument(p).id, "completed")
    /\ Respond(p, "ok")
    /\ UNCHANGED <<fnVars, req, cartSnapshot, productData, attempts, callVars>>

\* ---------------------------------------------------------- update_product

\* The product document after productRef.update({...updates}).
UpdatedProduct(pd, r) ==
    [owner |-> pd.owner,
     price |-> IF "price" \in r.fields THEN r.price ELSE pd.price,
     stock |-> IF "stock" \in r.fields THEN r.stock ELSE pd.stock,
     active |-> IF "active" \in r.fields THEN r.active ELSE pd.active]

\* update_product_product that writes the update before it checks the owner.
update_product_product_WriteFirst(p) ==
    /\ pc[p] = "product" /\ req[p].op = "update_product"
    /\ LET pd == getProductDataById(req[p].product_id) IN
         /\ productData' = [productData EXCEPT ![p] = pd]
         /\ IF pd = <<>>
            THEN /\ Respond(p, "NotFound")
                 /\ UNCHANGED <<products, wrote>>
            ELSE /\ products' = [products EXCEPT ![req[p].product_id] =
                                    UpdatedProduct(@, req[p])]
                 /\ wrote' = [wrote EXCEPT ![p] = TRUE]
                 /\ IF pd[1].owner # req[p].uid
                    THEN Respond(p, "PermissionDenied")
                    ELSE Respond(p, "ok")
    /\ UNCHANGED <<carts, fnVars, req, cartSnapshot, attempts, callVars>>

\* getProductDataById and the owner check
update_product_product(p) ==
    /\ pc[p] = "product" /\ req[p].op = "update_product"
    /\ LET pd == getProductDataById(req[p].product_id) IN
         /\ productData' = [productData EXCEPT ![p] = pd]
         /\ IF pd = <<>> THEN Respond(p, "NotFound")
            ELSE IF pd[1].owner # req[p].uid THEN Respond(p, "PermissionDenied")
            ELSE Goto(p, "write")
    /\ UNCHANGED <<storeVars, fnVars, req, cartSnapshot, wrote, attempts, callVars>>

\* update_product_write that also writes a new price into the lines of the
\* product in the pending carts.
update_product_write_RefreshCarts(p) ==
    /\ pc[p] = "write" /\ req[p].op = "update_product"
    /\ IF req[p].product_id \in DOMAIN products
       THEN /\ products' = [products EXCEPT ![req[p].product_id] =
                               UpdatedProduct(@, req[p])]
            /\ carts' = [c \in DOMAIN carts |->
                  IF /\ carts[c].status = "pending"
                     /\ HasLine(carts[c], req[p].product_id)
                     /\ "price" \in req[p].fields
                  THEN [carts[c] EXCEPT
                           !.products[req[p].product_id].price = req[p].price]
                  ELSE carts[c]]
            /\ wrote' = [wrote EXCEPT ![p] = TRUE]
            /\ Respond(p, "ok")
       ELSE /\ UNCHANGED <<carts, products, wrote>>
            /\ Respond(p, "Internal")
    /\ UNCHANGED <<fnVars, req, cartSnapshot, productData, attempts, callVars>>

\* productRef.update({...updates}): fails when the document is gone, and the
\* error, not an HTTPError, becomes the 500 response.
update_product_write(p) ==
    /\ pc[p] = "write" /\ req[p].op = "update_product"
    /\ IF req[p].product_id \in DOMAIN products
       THEN /\ products' = [products EXCEPT ![req[p].product_id] =
                               UpdatedProduct(@, req[p])]
            /\ wrote' = [wrote EXCEPT ![p] = TRUE]
            /\ Respond(p, "ok")
       ELSE /\ UNCHANGED <<products, wrote>>
            /\ Respond(p, "Internal")
    /\ UNCHANGED <<carts, fnVars, req, cartSnapshot, productData, attempts, callVars>>

\* ---------------------------------------------------------- remove_product

\* remove_product_product without the test of the owner.
remove_product_product_NoOwnerCheck(p) ==
    /\ pc[p] = "product" /\ req[p].op = "remove_product"
    /\ LET pd == getProductDataById(req[p].product_id) IN
         /\ productData' = [productData EXCEPT ![p] = pd]
         /\ IF pd = <<>> THEN Respond(p, "NotFound")
            ELSE Goto(p, "write")
    /\ UNCHANGED <<storeVars, fnVars, req, cartSnapshot, wrote, attempts, callVars>>

\* getProductDataById and the owner check
remove_product_product(p) ==
    /\ pc[p] = "product" /\ req[p].op = "remove_product"
    /\ LET pd == getProductDataById(req[p].product_id) IN
         /\ productData' = [productData EXCEPT ![p] = pd]
         /\ IF pd = <<>> THEN Respond(p, "NotFound")
            ELSE IF pd[1].owner # req[p].uid THEN Respond(p, "PermissionDenied")
            ELSE Goto(p, "write")
    /\ UNCHANGED <<storeVars, fnVars, req, cartSnapshot, wrote, attempts, callVars>>

\* productRef.delete()
remove_product_write(p) ==
    /\ pc[p] = "write" /\ req[p].op = "remove_product"
    /\ products' = Delete(products, req[p].product_id)
    /\ wrote' = [wrote EXCEPT ![p] = TRUE]
    /\ Respond(p, "ok")
    /\ UNCHANGED <<carts, fnVars, req, cartSnapshot, productData, attempts, callVars>>

\* ---------------------------------------------------------- create_product

\* The product that create_product stores.
NewProduct(r) ==
    [owner |-> r.uid, price |-> r.price, stock |-> r.stock, active |-> r.active]

\* firestore.collection('products').add(newProduct)
create_product(p) ==
    /\ pc[p] = "write" /\ req[p].op = "create_product"
    /\ \E id \in NewProductIds \ DOMAIN products :
           products' = Put(products, id, NewProduct(req[p]))
    /\ wrote' = [wrote EXCEPT ![p] = TRUE]
    /\ Respond(p, "ok")
    /\ UNCHANGED <<carts, fnVars, req, cartSnapshot, productData, attempts, callVars>>

\* ------------------------------------------------------- get_product_by_id

\* get_product_by_id that checks that the product is active for every caller.
get_product_by_id_ActiveForAll(p) ==
    /\ pc[p] = "product" /\ req[p].op = "get_product_by_id"
    /\ LET pd == getProductDataById(req[p].product_id) IN
         /\ productData' = [productData EXCEPT ![p] = pd]
         /\ IF pd = <<>> THEN Respond(p, "NotFound")
            ELSE Respond(p, checkProductActive(pd[1]))
    /\ UNCHANGED <<storeVars, fnVars, req, cartSnapshot, wrote, attempts, callVars>>

\* getProductDataById; checkProductActive when the caller is not the owner,
\* after a warning that they are not; the product is the response.
get_product_by_id(p) ==
    /\ pc[p] = "product" /\ req[p].op = "get_product_by_id"
    /\ LET pd == getProductDataById(req[p].product_id) IN
         /\ productData' = [productData EXCEPT ![p] = pd]
         /\ IF pd = <<>> THEN Respond(p, "NotFound")
            ELSE IF pd[1].owner = req[p].uid THEN Respond(p, "ok")
            ELSE IF checkProductActive(pd[1]) # "ok"
            THEN Respond(p, checkProductActive(pd[1]))
            ELSE /\ pc' = [pc EXCEPT ![p] = "done"]
                 /\ result' = [result EXCEPT ![p] = "ok"]
                 /\ warning' = [warning EXCEPT ![p] = "NotOwner"]
    /\ UNCHANGED <<storeVars, fnVars, req, cartSnapshot, wrote, attempts, callVars>>

\* ------------------------------------------------------------ specification

\* A step of the cart handler in slot p.
CartStep(p) ==
    \/ add_product_to_cart_query(p)
    \/ add_product_to_cart_product(p)
    \/ add_product_to_cart_write(p)
    \/ remove_product_from_cart_query(p)
    \/ remove_product_from_cart_write(p)
    \/ update_product_quantity_in_cart_query(p)
    \/ update_product_quantity_in_cart_product(p)
    \/ update_product_quantity_in_cart_write(p)
    \/ get_cart(p)
    \/ clear_cart_query(p)
    \/ clear_cart_write(p)
    \/ checkout_cart_query(p)
    \/ checkout_cart_write(p)

\* A step of the product handler in slot p.
ProductStep(p) ==
    \/ update_product_product(p)
    \/ update_product_write(p)
    \/ remove_product_product(p)
    \/ remove_product_write(p)

\* Cart requests run concurrently in the slots of Procs.
Next ==
    \E p \in Procs :
        \/ \E r \in ConcurrentRequests : Call(p, r)
        \/ CartStep(p)

Spec == Init /\ [][Next]_vars

\* Requests of all handlers run one after another: a single slot.
SeqNext ==
    \/ \E r \in Requests : Call("r1", r)
    \/ CartStep("r1")
    \/ ProductStep("r1")

SpecSeq == Init /\ [][SeqNext]_vars

\* The scenario: one owner adds a product twice, sets the quantity of the
\* line, checks out and asks for the cart.
Scenario ==
    <<"add_product_to_cart", "add_product_to_cart",
      "update_product_quantity_in_cart", "checkout_cart", "get_cart">>

\* The requests that may come next in the scenario: the first by any owner
\* for any product, the others by the same owner for the same product; the
\* quantities are integers of at most the stock of the product.
ScenarioRequests ==
    LET k == Len(history) + 1 IN
    IF k > Len(Scenario) THEN {}
    ELSE IF k = 1
    THEN {r \in AddRequests : r.quantity <= products[r.product_id].stock}
    ELSE IF Scenario[k] \in {"checkout_cart", "get_cart"}
    THEN {[op |-> Scenario[k], uid |-> history[1].uid]}
    ELSE {r \in AddRequests \cup UpdateQuantityRequests :
             /\ r.op = Scenario[k]
             /\ r.uid = history[1].uid
             /\ r.product_id = history[1].product_id
             /\ r.quantity <= products[r.product_id].stock}

\* The next request of the scenario arrives.
ScenarioCall(p) ==
    \E r \in ScenarioRequests :
        /\ Arrive(p, r)
        /\ history' = Append(history, r)

\* A step of a handler of the scenario in slot p.
ScenarioStep(p) ==
    \/ add_product_to_cart_query(p)
    \/ add_product_to_cart_product(p)
    \/ add_product_to_cart_write(p)
    \/ update_product_quantity_in_cart_query(p)
    \/ update_product_quantity_in_cart_product(p)
    \/ update_product_quantity_in_cart_write(p)
    \/ checkout_cart_query(p)
    \/ checkout_cart_write(p)
    \/ get_cart(p)

ScenarioNext ==
    \/ ScenarioCall("r1")
    \/ ScenarioStep("r1")

SpecScenario == Init /\ [][ScenarioNext]_vars

\* A step of a handler of the products in slot p.
CatalogStep(p) ==
    \/ create_product(p)
    \/ get_product_by_id(p)
    \/ ProductStep(p)

\* Requests of the product handlers run one after another.
CatalogNext ==
    \/ \E r \in CatalogRequests : Call("r1", r)
    \/ CatalogStep("r1")

SpecCatalog == Init /\ [][CatalogNext]_vars

\* checkProductStock applied alone to any stock and any quantity.
StockInit ==
    /\ InitStore
    /\ stockArg \in (0 - MaxArg)..MaxArg
    /\ qtyArg \in (0 - MaxArg)..MaxArg
    /\ stockResult = "none"

checkProductStockCall ==
    /\ stockResult = "none"
    /\ stockResult' = checkProductStock(stockArg, qtyArg)
    /\ UNCHANGED <<storeVars, procVars, stockArg, qtyArg>>

SpecStock == StockInit /\ [][checkProductStockCall]_vars

\* ------------------------------------------------------------------ claims

RECURSIVE SumOfQuantities(_)
SumOfQuantities(S) ==
    IF S = {} THEN 0
    ELSE LET p == CHOOSE x \in S : TRUE
         IN req[p].quantity + SumOfQuantities(S \ {p})

\* Slot p has returned success from add_product_to_cart(u, pid, _).
AddedOk(p, u, pid) ==
    /\ pc[p] = "done" /\ result[p] = "ok"
    /\ req[p].op = "add_product_to_cart"
    /\ req[p].uid = u /\ req[p].product_id = pid

\* C1 (as claimed): when the only requests ever issued are one concurrent
\* add_product_to_cart(u, pid, q_i) per slot, starting from a store without
\* carts, and all have returned success, u has exactly one pending cart, which
\* holds a line for pid whose quantity is the sum of the q_i.
C1_NoLostUpdates ==
    \A u \in Users, pid \in ProductIds :
        (calls = Cardinality(Procs) /\ \A p \in Procs : AddedOk(p, u, pid))
        => \E c \in DOMAIN carts :
              /\ PendingIds(carts, u) = {c}
              /\ HasLine(carts[c], pid)
              /\ carts[c].products[pid].quantity = SumOfQuantities(Procs)

\* C2 (as claimed): in every reachable state, concurrent requests included,
\* each owner has at most one cart with status 'pending'.
C2_AtMostOnePendingAlways ==
    \A u \in Users : Cardinality(PendingIds(carts, u)) <= 1

\* No handler is between two awaits.
Quiescent == \A p \in Procs : pc[p] \in {"idle", "done"}

\* C3: when requests run one after another, after each request has completed
\* each owner has at most one cart with status 'pending'.
C3_AtMostOnePendingSequential ==
    Quiescent => \A u \in Users : Cardinality(PendingIds(carts, u)) <= 1

\* C3 witness: u1 has checked out one cart and then added to a new one.
C3_Witness ==
    /\ Quiescent
    /\ \E c, d \in DOMAIN carts :
          /\ carts[c].owner = "u1" /\ carts[c].status = "completed"
          /\ carts[d].owner = "u1" /\ carts[d].status = "pending"

\* The pending cart query of slot p would now return something else than it
\* returned when the handler ran it.
Stale(p) == getCurrentPendingCartRef(req[p].uid) # cartSnapshot[p]

\* Slot p takes the write step of a cart handler.
CartWriteStep(p) ==
    /\ pc[p] = "write" /\ pc'[p] # "write"
    /\ req[p].op \in CartOps

\* C4 (as claimed): a cart handler's write to the cart document it read takes
\* no effect when that document has changed since the handler read it.
C4_WritesAreConditional ==
    [][\A p \in Procs :
          (/\ CartWriteStep(p)
           /\ cartSnapshot[p] # <<>>
           /\ carts[CartDocument(p).id] # CartDocument(p).data)
          => carts' = carts]_vars

\* C5 (as claimed): a cart handler whose write meets a changed pending cart
\* restarts from its read, or returns Conflict once the retries are used up.
C5_RetryOnMismatch ==
    [][\A p \in Procs :
          (CartWriteStep(p) /\ Stale(p))
          => (pc'[p] = "query" \/ result'[p] = "Conflict")]_vars

DomainErrors == {"InvalidArgument", "NotFound", "Unavailable", "PermissionDenied"}

\* C6: a handler that has returned a domain error has written nothing to the
\* store and has run its read step at most once.
C6_NoWriteOnDomainError ==
    \A p \in Procs :
        result[p] \in DomainErrors => (~wrote[p] /\ attempts[p] <= 1)

\* C6 witness: update_product by a principal who is not the owner has been
\* refused after the product was read.
C6_Witness ==
    \E p \in Procs :
        /\ pc[p] = "done" /\ result[p] = "PermissionDenied"
        /\ req[p].op = "update_product"
        /\ productData[p] # <<>>

\* C7: checkProductStock fails exactly when stock <= 0, or quantity > 0 and
\* stock < quantity; a request for exactly the stock passes and a request for
\* one more fails.
C7_CheckStock ==
    stockResult # "none" =>
        /\ (stockResult = "Unavailable")
               <=> (stockArg <= 0 \/ (qtyArg > 0 /\ stockArg < qtyArg))
        /\ (stockArg >= 1 /\ qtyArg = stockArg) => stockResult = "ok"
        /\ (stockArg >= 1 /\ qtyArg = stockArg + 1) => stockResult = "Unavailable"

\* C7 witness: a request for exactly the remaining stock has passed.
C7_Witness ==
    stockResult = "ok" /\ stockArg >= 1 /\ qtyArg = stockArg

\* Slot p takes the write step of add_product_to_cart and returns success.
AddWriteStep(p) ==
    /\ pc[p] = "write" /\ pc'[p] = "done" /\ result'[p] = "ok"
    /\ req[p].op = "add_product_to_cart"

\* The line that add_product_to_cart(product_id, quantity) inserts.
NewLine(p) ==
    [price |-> products[req[p].product_id].price, quantity |-> req[p].quantity]

\* C8: a successful add_product_to_cart of an owner without a pending cart
\* creates exactly one cart, owned by the caller, pending, whose only line is
\* product_id -> {price of the product, quantity asked}.
C8_CreationOnFirstAdd ==
    [][\A p \in Procs :
          (AddWriteStep(p) /\ PendingIds(carts, req[p].uid) = {})
          => \E id \in CartIds \ DOMAIN carts :
                /\ DOMAIN carts' = (DOMAIN carts) \cup {id}
                /\ \A c \in DOMAIN carts : carts'[c] = carts[c]
                /\ carts'[id].owner = req[p].uid
                /\ carts'[id].status = "pending"
                /\ DOMAIN carts'[id].products = {req[p].product_id}
                /\ carts'[id].products[req[p].product_id] = NewLine(p)]_vars

\* C8 witness: an add that found no pending cart has returned success with a
\* quantity above one, and the cart it created is in the store.
C8_Witness ==
    \E p \in Procs :
        /\ AddedOk(p, req[p].uid, req[p].product_id)
        /\ cartSnapshot[p] = <<>>
        /\ req[p].quantity > Whole(1)
        /\ \E c \in PendingIds(carts, req[p].uid) :
              DOMAIN carts[c].products = {req[p].product_id}

\* C9: a successful add_product_to_cart on a pending cart that has a line for
\* the product adds the quantity asked to the line's quantity and keeps the
\* line's price, whatever the product's price is now.
C9_IncrementKeepsSnapshot ==
    [][\A p \in Procs :
          AddWriteStep(p) =>
             \A c \in PendingIds(carts, req[p].uid) :
                HasLine(carts[c], req[p].product_id)
                => /\ HasLine(carts'[c], req[p].product_id)
                   /\ carts'[c].products[req[p].product_id].quantity
                          = carts[c].products[req[p].product_id].quantity
                            + req[p].quantity
                   /\ carts'[c].products[req[p].product_id].price
                          = carts[c].products[req[p].product_id].price]_vars

\* C9 witness: an add has incremented a line whose price differs from the
\* product's price now.
C9_Witness ==
    \E p \in Procs :
        /\ AddedOk(p, req[p].uid, req[p].product_id)
        /\ cartSnapshot[p] # <<>>
        /\ HasLine(CartDocument(p).data, req[p].product_id)
        /\ carts[CartDocument(p).id].products[req[p].product_id].quantity
               > req[p].quantity
        /\ req[p].product_id \in DOMAIN products
        /\ carts[CartDocument(p).id].products[req[p].product_id].price
               # products[req[p].product_id].price

\* C10: a successful add_product_to_cart on a pending cart without a line for
\* the product adds the line product_id -> {price of the product, quantity
\* asked} and changes nothing else: not another line, not the owner, not the
\* status, not another cart.
C10_InsertIntoExistingCart ==
    [][\A p \in Procs :
          AddWriteStep(p) =>
             \A c \in PendingIds(carts, req[p].uid) :
                ~HasLine(carts[c], req[p].product_id)
                => carts' = [carts EXCEPT ![c].products =
                                Put(@, req[p].product_id, NewLine(p))]]_vars

\* C10 witness: an add has inserted a second line into a cart that had one.
C10_Witness ==
    \E p \in Procs :
        /\ AddedOk(p, req[p].uid, req[p].product_id)
        /\ cartSnapshot[p] # <<>>
        /\ ~HasLine(CartDocument(p).data, req[p].product_id)
        /\ CartDocument(p).data.products # NoLines
        /\ DOMAIN carts[CartDocument(p).id].products = ProductIds

\* Slot p runs update_product_quantity_in_cart and is at the await `at`.
UpdateQuantityAt(p, at) ==
    /\ pc[p] = at /\ pc'[p] # at
    /\ req[p].op = "update_product_quantity_in_cart"

\* C11: update_product_quantity_in_cart passes its product check exactly when
\* the product exists, is active and has a stock of at least the quantity
\* asked, whatever the quantity of the line is; its write sets the quantity of
\* the line to the quantity asked and changes nothing else: not the price of
\* the line, not another line, not another cart.
C11_UpdateLineQuantity ==
    [][\A p \in Procs :
          /\ UpdateQuantityAt(p, "product")
             => (pc'[p] = "write"
                 <=> /\ req[p].product_id \in DOMAIN products
                     /\ products[req[p].product_id].active
                     /\ products[req[p].product_id].stock >= req[p].quantity)
          /\ UpdateQuantityAt(p, "write")
             => /\ result'[p] = "ok"
                /\ PendingIds(carts, req[p].uid) # {}
                /\ \A c \in PendingIds(carts, req[p].uid) :
                      carts' = [carts EXCEPT
                                   ![c].products[req[p].product_id].quantity
                                       = req[p].quantity]]_vars

\* C11 witness: an update has changed the quantity of one line of a cart that
\* has two lines.
C11_Witness ==
    \E p \in Procs :
        /\ pc[p] = "done" /\ result[p] = "ok"
        /\ req[p].op = "update_product_quantity_in_cart"
        /\ CartDocument(p).data.products[req[p].product_id].quantity
               # req[p].quantity
        /\ carts[CartDocument(p).id].products[req[p].product_id].quantity
               = req[p].quantity
        /\ DOMAIN carts[CartDocument(p).id].products = ProductIds

\* C12: update_product_quantity_in_cart returns NotFound when the owner has no
\* pending cart and when the pending cart has no line for the product, and
\* Unavailable when the product is inactive or its stock is below the
\* quantity asked; a request that returns one of these has written nothing
\* and leaves the carts as they were.
C12_UpdateLineQuantityErrors ==
    [][\A p \in Procs :
          /\ UpdateQuantityAt(p, "query")
             => /\ PendingIds(carts, req[p].uid) = {} => result'[p] = "NotFound"
                /\ (\A c \in PendingIds(carts, req[p].uid) :
                       ~HasLine(carts[c], req[p].product_id))
                   => result'[p] = "NotFound"
          /\ UpdateQuantityAt(p, "product")
             => ((/\ req[p].product_id \in DOMAIN products
                  /\ \/ ~products[req[p].product_id].active
                     \/ products[req[p].product_id].stock < req[p].quantity)
                 => result'[p] = "Unavailable")
          /\ (/\ pc[p] \in {"query", "product", "write"}
              /\ req[p].op = "update_product_quantity_in_cart"
              /\ result'[p] \in {"NotFound", "Unavailable"})
             => (carts' = carts /\ ~wrote'[p])]_vars

\* C12 witness: an update of a line to a quantity above the stock of its
\* active product has returned Unavailable, and the line is as it was.
C12_Witness ==
    \E p \in Procs :
        /\ pc[p] = "done" /\ result[p] = "Unavailable"
        /\ req[p].op = "update_product_quantity_in_cart"
        /\ productData[p] # <<>> /\ productData[p][1].active
        /\ productData[p][1].stock < req[p].quantity
        /\ HasLine(carts[CartDocument(p).id], req[p].product_id)
        /\ carts[CartDocument(p).id] = CartDocument(p).data

\* Slot p runs remove_product_from_cart and is at the await `at`.
RemoveLineAt(p, at) ==
    /\ pc[p] = at /\ pc'[p] # at
    /\ req[p].op = "remove_product_from_cart"

\* The owner of the request of slot p has no pending cart with a line for the
\* product of the request.
NoSuchLine(p) ==
    \A c \in PendingIds(carts, req[p].uid) : ~HasLine(carts[c], req[p].product_id)

\* C13: remove_product_from_cart returns NotFound, and changes no cart, when
\* the owner has no pending cart or the pending cart has no line for the
\* product; otherwise it succeeds, the key of the product is gone from the
\* lines of the pending cart, and nothing else has changed: not another line,
\* not the status, not another cart.
C13_RemoveLine ==
    [][\A p \in Procs :
          /\ RemoveLineAt(p, "query")
             => IF NoSuchLine(p)
                THEN result'[p] = "NotFound" /\ carts' = carts
                ELSE pc'[p] = "write" /\ carts' = carts
          /\ RemoveLineAt(p, "write")
             => /\ result'[p] = "ok"
                /\ PendingIds(carts, req[p].uid) # {}
                /\ \A c \in PendingIds(carts, req[p].uid) :
                      /\ ~HasLine(carts'[c], req[p].product_id)
                      /\ carts' = [carts EXCEPT ![c].products =
                                      Delete(@, req[p].product_id)]]_vars

\* C13 witness: a line has been removed from a cart that had two; the cart is
\* pending and holds the other line only.
C13_Witness ==
    \E p \in Procs :
        /\ pc[p] = "done" /\ result[p] = "ok"
        /\ req[p].op = "remove_product_from_cart"
        /\ DOMAIN CartDocument(p).data.products = ProductIds
        /\ carts[CartDocument(p).id].status = "pending"
        /\ DOMAIN carts[CartDocument(p).id].products
               = ProductIds \ {req[p].product_id}

\* Slot p runs clear_cart and is at the await `at`.
ClearCartAt(p, at) ==
    /\ pc[p] = at /\ pc'[p] # at
    /\ req[p].op = "clear_cart"

\* C14: clear_cart returns NotFound, and changes no cart, when the owner has
\* no pending cart; otherwise it succeeds and the pending cart has no line,
\* is still pending and still the owner's, whatever lines it had, and no other
\* cart has changed.
C14_ClearCart ==
    [][\A p \in Procs :
          /\ ClearCartAt(p, "query")
             => IF PendingIds(carts, req[p].uid) = {}
                THEN result'[p] = "NotFound" /\ carts' = carts
                ELSE pc'[p] = "write" /\ carts' = carts
          /\ ClearCartAt(p, "write")
             => /\ result'[p] = "ok"
                /\ PendingIds(carts, req[p].uid) # {}
                /\ \A c \in PendingIds(carts, req[p].uid) :
                      /\ carts'[c].products = NoLines
                      /\ carts'[c].status = "pending"
                      /\ carts'[c].owner = req[p].uid
                      /\ \A d \in DOMAIN carts : d # c => carts'[d] = carts[d]
                      /\ DOMAIN carts' = DOMAIN carts]_vars

\* C14 witness: a cart that had two lines has been cleared; it is pending and
\* has no line.
C14_Witness ==
    \E p \in Procs :
        /\ pc[p] = "done" /\ result[p] = "ok"
        /\ req[p].op = "clear_cart"
        /\ DOMAIN CartDocument(p).data.products = ProductIds
        /\ carts[CartDocument(p).id].status = "pending"
        /\ carts[CartDocument(p).id].owner = req[p].uid
        /\ carts[CartDocument(p).id].products = NoLines

\* Slot p runs checkout_cart and is at the await `at`.
CheckoutAt(p, at) ==
    /\ pc[p] = at /\ pc'[p] # at
    /\ req[p].op = "checkout_cart"

\* C15: checkout_cart of an owner who has a pending cart succeeds and sets the
\* status of that cart to 'completed'; a checkout_cart of the same owner
\* issued right after that one has returned returns NotFound.
C15_CheckoutIdempotent ==
    [][\A p \in Procs :
          /\ (CheckoutAt(p, "query") /\ PendingIds(carts, req[p].uid) # {})
             => pc'[p] = "write"
          /\ CheckoutAt(p, "write")
             => /\ result'[p] = "ok"
                /\ PendingIds(carts, req[p].uid) # {}
                /\ \A c \in PendingIds(carts, req[p].uid) :
                      carts' = [carts EXCEPT ![c].status = "completed"]
          /\ (CheckoutAt(p, "query") /\ checkedOut[p] = req[p].uid)
             => (result'[p] = "NotFound" /\ carts' = carts)]_vars

\* C15 witness: the owner's second checkout in a row has returned NotFound,
\* and the cart of the first is completed.
C15_Witness ==
    \E p \in Procs :
        /\ pc[p] = "done" /\ result[p] = "NotFound"
        /\ req[p].op = "checkout_cart"
        /\ checkedOut[p] = req[p].uid
        /\ \E c \in DOMAIN carts :
              carts[c].owner = req[p].uid /\ carts[c].status = "completed"

\* C16: the status of every cart is 'pending' or 'completed', a cart is
\* created with the status 'pending', no cart is deleted, and a cart that is
\* 'completed' stays 'completed' in every step, overlapping requests included.
C16_StatusStateMachine ==
    [][/\ \A c \in DOMAIN carts' : carts'[c].status \in {"pending", "completed"}
       /\ \A c \in (DOMAIN carts') \ (DOMAIN carts) : carts'[c].status = "pending"
       /\ \A c \in DOMAIN carts :
             /\ c \in DOMAIN carts'
             /\ carts[c].status = "completed" => carts'[c].status = "completed"
      ]_vars

\* C16 witness: a handler that read a cart while it was pending has written
\* its lines, a checkout of the same cart has returned, and the cart is
\* completed.
C16_Witness ==
    \E p, q \in Procs :
        /\ pc[p] = "done" /\ result[p] = "ok" /\ wrote[p]
        /\ req[p].op \in {"add_product_to_cart", "remove_product_from_cart",
                           "update_product_quantity_in_cart", "clear_cart"}
        /\ cartSnapshot[p] # <<>>
        /\ pc[q] = "done" /\ result[q] = "ok" /\ req[q].op = "checkout_cart"
        /\ CartDocument(q).id = CartDocument(p).id
        /\ carts[CartDocument(p).id].status = "completed"

\* C17 (as claimed): once the status of a cart is 'completed' its lines never
\* change again, whatever requests of the owner overlap the checkout.
C17_CheckoutFreezesLines ==
    [][\A c \in DOMAIN carts :
          carts[c].status = "completed"
          => (c \in DOMAIN carts' /\ carts'[c].products = carts[c].products)]_vars

\* C18 (as claimed): when two add_product_to_cart requests of one owner for
\* two different products have both read the owner's pending cart and both
\* returned success, that cart has a line for each of the two products.
C18_NoLostUpdateAcrossLines ==
    \A p, q \in Procs :
        (/\ AddedOk(p, req[p].uid, req[p].product_id)
         /\ AddedOk(q, req[p].uid, req[q].product_id)
         /\ req[p].product_id # req[q].product_id
         /\ cartSnapshot[p] # <<>> /\ cartSnapshot[q] # <<>>
         /\ cartSnapshot[p] = cartSnapshot[q])
        => /\ HasLine(carts[CartDocument(p).id], req[p].product_id)
           /\ HasLine(carts[CartDocument(p).id], req[q].product_id)

\* C19: no step of a cart handler changes the products collection; the
\* product check of add_product_to_cart passes exactly when the product
\* exists, is active and has a stock of at least the quantity asked, whatever
\* the cart already holds; and an add to an existing line adds the quantity
\* asked, so that a line can hold more than the stock.
C19_StockNeverReserved ==
    [][\A p \in Procs :
          /\ (pc[p] \in {"query", "product", "write"} /\ req[p].op \in CartOps)
             => products' = products
          /\ (/\ pc[p] = "product" /\ pc'[p] # "product"
              /\ req[p].op = "add_product_to_cart")
             => (pc'[p] = "write"
                 <=> /\ req[p].product_id \in DOMAIN products
                     /\ products[req[p].product_id].active
                     /\ products[req[p].product_id].stock >= req[p].quantity)
          /\ AddWriteStep(p)
             => \A c \in PendingIds(carts, req[p].uid) :
                   HasLine(carts[c], req[p].product_id)
                   => carts'[c].products[req[p].product_id].quantity
                         = carts[c].products[req[p].product_id].quantity
                           + req[p].quantity]_vars

\* C19 witness: with the catalogue as it started, an add of the whole stock of
\* a product and a second add of the same product have both succeeded, and
\* the line holds more than the stock.
C19_Witness ==
    \E p \in Procs :
        /\ AddedOk(p, req[p].uid, req[p].product_id)
        /\ products = InitialProducts
        /\ cartSnapshot[p] # <<>>
        /\ HasLine(CartDocument(p).data, req[p].product_id)
        /\ CartDocument(p).data.products[req[p].product_id].quantity
               = products[req[p].product_id].stock
        /\ carts[CartDocument(p).id].products[req[p].product_id].quantity
               = products[req[p].product_id].stock + req[p].quantity

\* C20 (as claimed): in every reachable state every line of every cart,
\* pending or completed, has a quantity that is an integer above zero.
C20_QuantityPositiveInteger ==
    \A c \in DOMAIN carts :
        \A pid \in DOMAIN carts[c].products :
            /\ carts[c].products[pid].quantity > 0
            /\ IsInteger(carts[c].products[pid].quantity)

\* C21 (as claimed): add_product_to_cart and update_product_quantity_in_cart
\* return InvalidArgument for every quantity that is not an integer above
\* zero, before they read or write any cart or product.
C21_QuantityValidation ==
    \A p \in Procs :
        (/\ req[p].op \in {"add_product_to_cart", "update_product_quantity_in_cart"}
         /\ ~(req[p].quantity > 0 /\ IsInteger(req[p].quantity)))
        => /\ pc[p] = "done" /\ result[p] = "InvalidArgument"
           /\ attempts[p] = 0 /\ productData[p] = <<>> /\ ~wrote[p]

\* C22: no step of update_product or of remove_product changes a cart: every
\* line keeps its price, in pending and in completed carts, when the price of
\* its product changes and when its product is removed.
C22_PriceSnapshotDecoupled ==
    [][\A p \in Procs :
          (pc[p] \in {"product", "write"} /\ req[p].op \in ProductOps)
          => carts' = carts]_vars

\* C22 witness: update_product has set a new price on a product, and a
\* completed cart holds a line for that product with another price.
C22_Witness ==
    \E p \in Procs :
        /\ pc[p] = "done" /\ result[p] = "ok"
        /\ req[p].op = "update_product" /\ "price" \in req[p].fields
        /\ products[req[p].product_id].price = req[p].price
        /\ \E c \in DOMAIN carts :
              /\ carts[c].status = "completed"
              /\ HasLine(carts[c], req[p].product_id)
              /\ carts[c].products[req[p].product_id].price # req[p].price

\* Slot p runs update_product or remove_product and is at the await `at`.
ProductOpAt(p, at) ==
    /\ pc[p] = at /\ pc'[p] # at
    /\ req[p].op \in ProductOps

\* C23: update_product and remove_product on an existing product return
\* PermissionDenied and leave the products as they were when the caller is
\* not the owner of the product; when the caller is the owner they go on to
\* the write, which succeeds and updates or deletes that product only; and no
\* step changes the owner of a product.
C23_ProductOwnership ==
    [][/\ \A p \in Procs :
             /\ (ProductOpAt(p, "product") /\ req[p].product_id \in DOMAIN products)
                => IF products[req[p].product_id].owner # req[p].uid
                   THEN result'[p] = "PermissionDenied" /\ products' = products
                   ELSE pc'[p] = "write" /\ products' = products
             /\ ProductOpAt(p, "write")
                => /\ result'[p] = "ok"
                   /\ products[req[p].product_id].owner = req[p].uid
                   /\ products' = IF req[p].op = "update_product"
                                  THEN [products EXCEPT ![req[p].product_id] =
                                           UpdatedProduct(@, req[p])]
                                  ELSE Delete(products, req[p].product_id)
       /\ \A id \in (DOMAIN products) \cap (DOMAIN products') :
             products'[id].owner = products[id].owner]_vars

\* C23 witness: remove_product by a principal who is not the owner has been
\* refused, and the product is as it was read.
C23_Witness ==
    \E p \in Procs :
        /\ pc[p] = "done" /\ result[p] = "PermissionDenied"
        /\ req[p].op = "remove_product"
        /\ req[p].product_id \in DOMAIN products
        /\ products[req[p].product_id].owner # req[p].uid
        /\ <<products[req[p].product_id]>> = productData[p]

\* Another owner than the caller of slot p has a pending cart with a line for
\* the product of the request.
LineOfAnotherOwner(p) ==
    \E c \in DOMAIN carts :
        /\ carts[c].owner # req[p].uid /\ carts[c].status = "pending"
        /\ HasLine(carts[c], req[p].product_id)

\* C24 (as claimed): update_product_quantity_in_cart or
\* remove_product_from_cart by a principal who is not the owner of the cart
\* that holds the line returns PermissionDenied.
C24_CartOwnershipDenied ==
    \A p \in Procs :
        (/\ pc[p] = "done" /\ attempts[p] = 1
         /\ req[p].op \in {"remove_product_from_cart",
                            "update_product_quantity_in_cart"}
         /\ PendingIds(carts, req[p].uid) = {}
         /\ LineOfAnotherOwner(p))
        => result[p] = "PermissionDenied"

\* C24 (amended): update_product_quantity_in_cart and
\* remove_product_from_cart act on the pending cart of the caller only.  No
\* step of theirs returns PermissionDenied or changes a cart of another owner;
\* a caller without a pending cart that has the line gets NotFound and no cart
\* changes, also when another owner's cart has the line; a caller whose
\* pending cart has the line goes on, and the write succeeds.
C24_CartOwnershipAmended ==
    [][\A p \in Procs :
          (RemoveLineAt(p, pc[p]) \/ UpdateQuantityAt(p, pc[p]))
          => /\ result'[p] # "PermissionDenied"
             /\ DOMAIN carts' = DOMAIN carts
             /\ \A c \in DOMAIN carts :
                   carts[c].owner # req[p].uid => carts'[c] = carts[c]
             /\ pc[p] = "query"
                => IF NoSuchLine(p)
                   THEN result'[p] = "NotFound" /\ carts' = carts
                   ELSE pc'[p] \in {"product", "write"}
             /\ pc[p] = "write" => result'[p] = "ok"]_vars

\* C24 witness: a remove by a principal without a cart has returned NotFound
\* while another owner's pending cart holds a line for the product.
C24_Witness ==
    \E p \in Procs :
        /\ pc[p] = "done" /\ result[p] = "NotFound"
        /\ req[p].op = "remove_product_from_cart"
        /\ attempts[p] = 1
        /\ PendingIds(carts, req[p].uid) = {}
        /\ LineOfAnotherOwner(p)

\* C25 (as claimed): a cart handler whose query returns more than one pending
\* cart of the owner acts on the one with the lowest id, logs an invariant
\* violation, and changes none of the others.
C25_DefensiveFindPending ==
    [][\A p \in Procs :
          (/\ pc[p] # "done" /\ pc'[p] = "done"
           /\ req[p].op \in CartOps
           /\ Len(cartSnapshot'[p]) > 1)
          => /\ \A c \in PendingIds(carts, req[p].uid) : cartSnapshot'[p][1].id <= c
             /\ \A c \in DOMAIN carts :
                   c # cartSnapshot'[p][1].id => carts'[c] = carts[c]
             /\ DOMAIN carts' = DOMAIN carts
             /\ warning'[p] = "InvariantViolation"]_vars

\* The carts of the owner of the scenario are one pending cart whose only
\* line is for the product of the scenario, with the price of the product and
\* the quantity q.
OneCartOneLine(q) ==
    /\ \A c \in DOMAIN carts : carts[c].owner = history[1].uid
    /\ Cardinality(DOMAIN carts) = 1
    /\ \A c \in DOMAIN carts :
          /\ carts[c].status = "pending"
          /\ DOMAIN carts[c].products = {history[1].product_id}
          /\ carts[c].products[history[1].product_id]
                = [price |-> products[history[1].product_id].price, quantity |-> q]

\* C26: in the scenario add(q1), add(q2), update(q3), checkout, get_cart of
\* one owner without a cart, on an active product with quantities of at most
\* its stock, every request but the last succeeds; the owner has a single
\* pending cart whose only line has the price of the product and the quantity
\* q1 after the first, q1 + q2 after the second and q3 after the third; after
\* the checkout the cart is completed and get_cart returns NotFound.
C26_SequentialScenario ==
    pc["r1"] = "done" =>
        /\ Len(history) < Len(Scenario) => result["r1"] = "ok"
        /\ Len(history) = 1 => OneCartOneLine(history[1].quantity)
        /\ Len(history) = 2
           => OneCartOneLine(history[1].quantity + history[2].quantity)
        /\ Len(history) = 3 => OneCartOneLine(history[3].quantity)
        /\ Len(history) >= 4
           => /\ Cardinality(DOMAIN carts) = 1
              /\ \A c \in DOMAIN carts : carts[c].status = "completed"
        /\ Len(history) = 5 => result["r1"] = "NotFound"

\* C26 witness: the scenario has run to its end with q1 + q2 above the stock
\* and q3 another quantity; get_cart has returned NotFound.
C26_Witness ==
    /\ pc["r1"] = "done" /\ Len(history) = Len(Scenario)
    /\ result["r1"] = "NotFound"
    /\ history[1].quantity + history[2].quantity
          > products[history[1].product_id].stock
    /\ history[3].quantity # history[1].quantity + history[2].quantity
    /\ \E c \in DOMAIN carts :
          carts[c].products[history[1].product_id].quantity = history[3].quantity

\* The completed carts of owner uid in the store m.
CompletedIds(m, uid) ==
    {c \in DOMAIN m : m[c].owner = uid /\ m[c].status = "completed"}

\* C27: a successful add_product_to_cart of an owner who has a completed cart
\* and no pending cart creates a cart under an id that no cart has, pending,
\* owned by the caller, whose only line is for the product asked, and leaves
\* every cart of the store as it was; no step removes a completed cart or
\* changes its status.
C27_NewCartAfterCheckout ==
    [][/\ \A p \in Procs :
            (/\ AddWriteStep(p)
             /\ PendingIds(carts, req[p].uid) = {}
             /\ CompletedIds(carts, req[p].uid) # {})
            => /\ \E id \in DOMAIN carts' \ DOMAIN carts :
                     /\ DOMAIN carts' = (DOMAIN carts) \cup {id}
                     /\ carts'[id].owner = req[p].uid
                     /\ carts'[id].status = "pending"
                     /\ DOMAIN carts'[id].products = {req[p].product_id}
               /\ \A c \in DOMAIN carts : carts'[c] = carts[c]
       /\ \A c \in DOMAIN carts :
            carts[c].status = "completed"
            => c \in DOMAIN carts' /\ carts'[c].status = "completed"]_vars

\* C27 witness: the call after a successful checkout_cart of the same owner
\* is an add that found no pending cart and returned success; the owner has
\* the completed cart with its lines and another, pending cart with one line.
C27_Witness ==
    \E p \in Procs :
        /\ pc[p] = "done" /\ result[p] = "ok"
        /\ req[p].op = "add_product_to_cart"
        /\ checkedOut[p] = req[p].uid
        /\ cartSnapshot[p] = <<>>
        /\ \E c \in CompletedIds(carts, req[p].uid) :
              /\ carts[c].products # NoLines
              /\ \E d \in PendingIds(carts, req[p].uid) :
                    d # c /\ DOMAIN carts[d].products = {req[p].product_id}

\* The body of the create_product request r has a price or a stock that is
\* zero, negative or missing.
BadCreate(r) ==
    \/ "price" \notin r.fields \/ "stock" \notin r.fields
    \/ r.price <= 0 \/ r.stock <= 0

GetProductAt(p) ==
    /\ pc[p] = "product" /\ pc'[p] # "product"
    /\ req[p].op = "get_product_by_id"

\* C30: get_product_by_id answers NotFound for a product that does not
\* exist; it returns an existing product to its owner, active or not; to
\* another caller it returns the product when it is active and answers
\* Unavailable when it is not; it changes no product and no cart.
C30_ProductVisibility ==
    [][\A p \in Procs :
          GetProductAt(p)
          => /\ pc'[p] = "done"
             /\ products' = products /\ carts' = carts /\ ~wrote'[p]
             /\ IF req[p].product_id \notin DOMAIN products
                THEN result'[p] = "NotFound"
                ELSE LET pd == products[req[p].product_id] IN
                     IF pd.owner = req[p].uid \/ pd.active
                     THEN /\ result'[p] = "ok"
                          /\ productData'[p] = <<pd>>
                     ELSE result'[p] = "Unavailable"]_vars

\* C30 witness: a caller who is not the owner has asked for a product that
\* is not active and got Unavailable, and the product is still in the store.
C30_Witness ==
    \E p \in Procs :
        /\ pc[p] = "done" /\ req[p].op = "get_product_by_id"
        /\ result[p] = "Unavailable"
        /\ req[p].product_id \in DOMAIN products
        /\ products[req[p].product_id].owner # req[p].uid
        /\ ~products[req[p].product_id].active

\* C29: a step of a cart handler called by an owner changes or creates only
\* carts of that owner, and the snapshot it reads holds only carts of that
\* owner; so no step taken for another owner, however the requests
\* interleave, changes a cart of an owner; no step changes the owner of a
\* cart or removes a cart.
C29_CartIsolation ==
    [][/\ \A c \in DOMAIN carts :
            /\ c \in DOMAIN carts'
            /\ carts'[c].owner = carts[c].owner
            /\ carts'[c] # carts[c]
               => \E p \in Procs : pc'[p] # pc[p] /\ req[p].uid = carts[c].owner
       /\ \A c \in DOMAIN carts' \ DOMAIN carts :
            \E p \in Procs : pc'[p] # pc[p] /\ req[p].uid = carts'[c].owner
       /\ \A p \in Procs : \A i \in DOMAIN cartSnapshot'[p] :
            cartSnapshot'[p][i].data.owner = req'[p].uid]_vars

\* C29 witness: the two slots have served two owners and both have written;
\* each owner has a cart, the one with a line, the other emptied by
\* clear_cart.
C29_Witness ==
    \E p \in Procs : \E q \in Procs \ {p} :
        /\ pc[p] = "done" /\ pc[q] = "done"
        /\ wrote[p] /\ wrote[q]
        /\ req[p].uid # req[q].uid
        /\ req[p].op = "clear_cart"
        /\ \E c \in PendingIds(carts, req[p].uid) : carts[c].products = NoLines
        /\ \E c \in PendingIds(carts, req[q].uid) : carts[c].products # NoLines

====
